---- MODULE Spec2Model ----
(***************************************************************************)
(* Conversation orchestration of the Syne backend: the /chat handler of    *)
(* main.py with its two session stores, the keyword router and search      *)
(* trigger of services/brain_service.py, services/ddg_service.py and the   *)
(* four provider services.                                                 *)
(*                                                                         *)
(* Text is a sequence of strings.  A prompt is a sequence of one-character *)
(* strings, so that the regular expressions of brain_service can be        *)
(* evaluated on it; collaborator texts (titles, snippets, replies) are     *)
(* sequences of longer chunks.  String concatenation is \o.                *)
(***************************************************************************)
EXTENDS Integers, Sequences, FiniteSets, TLC

\* ------------------------------------------------------------------------
\* Bounds of the model
\* ------------------------------------------------------------------------

\* requests the server accepts in one behaviour
MaxRequests == 2

\* largest edit_index a client sends (the smallest is -1)
MaxEditIndex == 3

\* longest prompt given to the router
MaxPromptLen == 4

\* most words beside the trigger in a prompt given to extract_query
MaxOtherWords == 2

\* most related topics in a response given to ddg_service.search
MaxTopics == 3

\* largest max_results given to ddg_service.search
MaxResultsAsked == 3

\* ------------------------------------------------------------------------
\* Characters and Python string helpers
\* ------------------------------------------------------------------------

UpperChars ==
    <<"A","B","C","D","E","F","G","H","I","J","K","L","M",
      "N","O","P","Q","R","S","T","U","V","W","X","Y","Z">>

LowerChars ==
    <<"a","b","c","d","e","f","g","h","i","j","k","l","m",
      "n","o","p","q","r","s","t","u","v","w","x","y","z">>

DigitChars == {"0","1","2","3","4","5","6","7","8","9"}

SpaceChars == {" ", "\t", "\n", "\r"}

Range(s) == { s[i] : i \in DOMAIN s }

\* str.lower() on one character
LowerChar(c) ==
    IF \E i \in DOMAIN UpperChars : UpperChars[i] = c
    THEN LowerChars[CHOOSE i \in DOMAIN UpperChars : UpperChars[i] = c]
    ELSE c

\* str.lower()
Lower(s) == [ i \in DOMAIN s |-> LowerChar(s[i]) ]

\* the class \w of the re module
IsWordChar(c) == c \in Range(UpperChars) \cup Range(LowerChars) \cup DigitChars \cup {"_"}

\* is position p of s (1-based) a word character; positions outside s are not
WordAt(s, p) == p \in DOMAIN s /\ IsWordChar(s[p])

\* \b between s[p-1] and s[p]
Boundary(s, p) == WordAt(s, p - 1) # WordAt(s, p)

\* the literal lit stands in s at position i
LiteralAt(s, i, lit) ==
    /\ i >= 1
    /\ i + Len(lit) - 1 <= Len(s)
    /\ \A k \in DOMAIN lit : s[i + k - 1] = lit[k]

\* "needle in haystack" of Python strings
Contains(s, lit) == \E i \in 1..(Len(s) + 1) : LiteralAt(s, i, lit)

\* str.strip() / lstrip / rstrip
RECURSIVE LStrip(_)
LStrip(s) == IF s # <<>> /\ Head(s) \in SpaceChars THEN LStrip(Tail(s)) ELSE s

RECURSIVE RStrip(_)
RStrip(s) ==
    IF s # <<>> /\ s[Len(s)] \in SpaceChars THEN RStrip(SubSeq(s, 1, Len(s) - 1)) ELSE s

Strip(s) == RStrip(LStrip(s))

\* re.sub(r"\s+", " ", s)
RECURSIVE CollapseSpaces(_)
CollapseSpaces(s) ==
    IF s = <<>> THEN <<>>
    ELSE IF Head(s) \in SpaceChars
         THEN <<" ">> \o CollapseSpaces(LStrip(s))
         ELSE <<Head(s)>> \o CollapseSpaces(Tail(s))

\* sep.join(parts)
RECURSIVE Join(_, _)
Join(sep, parts) ==
    IF parts = <<>> THEN <<>>
    ELSE IF Len(parts) = 1 THEN parts[1]
    ELSE parts[1] \o sep \o Join(sep, Tail(parts))

\* seq[:n] for n >= 0
Take(s, n) == SubSeq(s, 1, IF n < Len(s) THEN n ELSE Len(s))

Min(S) == CHOOSE x \in S : \A y \in S : x <= y

\* ------------------------------------------------------------------------
\* services/brain_service.py
\* ------------------------------------------------------------------------

Providers == {"gemini", "groq", "hf", "pollinations"}

DefaultProvider == "gemini"

\* The keyword table that brain_rules.json gives, in file order.  The file is
\* not among the sources: this table stands for one it can hold.
KEYWORD_MAP ==
    << [keyword |-> <<"c","o","d","e">>, model |-> "groq"],
       [keyword |-> <<"x">>,             model |-> "hf"],
       [keyword |-> <<"d","r","a","w">>, model |-> "pollinations"],
       [keyword |-> <<"h","i">>,         model |-> "openai"] >>

SEARCH_KEYWORDS ==
    { <<"s","e","a","r","c","h">>,
      <<"f","i","n","d">>,
      <<"l","o","o","k"," ","u","p">>,
      <<"g","o","o","g","l","e">>,
      <<"d","u","c","k","d","u","c","k","g","o">> }

\* the alternatives of extract_query's pattern, in pattern order
SearchVerbs ==
    << <<"s","e","a","r","c","h">>,
       <<"f","i","n","d">>,
       <<"l","o","o","k"," ","u","p">>,
       <<"g","o","o","g","l","e">>,
       <<"d","u","c","k","d","u","c","k","g","o">> >>

\* re.search(rf"\b{re.escape(keyword)}\b", s)
KeywordSearch(keyword, s) ==
    \E i \in 1..(Len(s) + 1) :
        /\ LiteralAt(s, i, keyword)
        /\ Boundary(s, i)
        /\ Boundary(s, i + Len(keyword))

RECURSIVE pick_model_scan(_, _, _)
pick_model_last(map, prompt_l, k) ==
    LET hits == { i \in DOMAIN map : KeywordSearch(map[i].keyword, prompt_l) }
    IN  IF hits = {} THEN DefaultProvider
        ELSE map[CHOOSE i \in hits : \A j \in hits : j <= i].model

\* the loop of pick_model from entry k of the table on
pick_model_scan(map, prompt_l, k) ==
    IF k > Len(map) THEN DefaultProvider
    ELSE IF KeywordSearch(map[k].keyword, prompt_l) THEN map[k].model
    ELSE pick_model_scan(map, prompt_l, k + 1)

pick_model_in(map, prompt) == pick_model_scan(map, Lower(prompt), 1)

pick_model(prompt) == pick_model_in(KEYWORD_MAP, prompt)

should_search(prompt) ==
    LET prompt_l == Lower(prompt)
    IN  \E word \in SEARCH_KEYWORDS : Contains(prompt_l, word)

VerbAtAnywhere(s, i) ==
    LET s_l  == Lower(s)
        hits == { k \in DOMAIN SearchVerbs : LiteralAt(s_l, i, SearchVerbs[k]) }
    IN  IF hits = {} THEN 0 ELSE Min(hits)

\* the first alternative of the pattern that matches at position i
\* (re.IGNORECASE), between two \b; 0 if none does
VerbAt(s, i) ==
    LET s_l  == Lower(s)
        hits == { k \in DOMAIN SearchVerbs :
                    /\ LiteralAt(s_l, i, SearchVerbs[k])
                    /\ Boundary(s, i)
                    /\ Boundary(s, i + Len(SearchVerbs[k])) }
    IN  IF hits = {} THEN 0 ELSE Min(hits)

\* re.sub(pattern, "", s) from position i on
RECURSIVE RemoveVerbs(_, _)
RemoveVerbs(s, i) ==
    IF i > Len(s) THEN <<>>
    ELSE LET k == VerbAt(s, i)
         IN  IF k # 0 THEN RemoveVerbs(s, i + Len(SearchVerbs[k]))
             ELSE <<s[i]>> \o RemoveVerbs(s, i + 1)

extract_query(prompt) == CollapseSpaces(Strip(RemoveVerbs(prompt, 1)))

\* ------------------------------------------------------------------------
\* Messages (main.py) and the session payload of RedisStore
\* ------------------------------------------------------------------------

Roles == {"user", "assistant", "system"}

Msg(role, content) == [role |-> role, content |-> content]

\* history.append({"role": role, "content": content})
append_message(h, role, content) == Append(h, Msg(role, content))

\* the valid items of a raw history, as Message objects
RECURSIVE to_messages(_)
to_messages(raw) ==
    IF raw = <<>> THEN <<>>
    ELSE IF Head(raw).role \in Roles
         THEN <<Head(raw)>> \o to_messages(Tail(raw))
         ELSE to_messages(Tail(raw))

\* json.dumps({"messages": history}): the text stored under the session's key
Dumps(h) ==
    [kind |-> "json", messages |-> [ i \in DOMAIN h |-> <<h[i].role, h[i].content>> ]]

LoadsSwapped(raw) ==
    [ i \in DOMAIN raw.messages |-> Msg(raw.messages[i][2], raw.messages[i][1]) ]

\* json.loads(raw).get("messages", [])
Loads(raw) ==
    [ i \in DOMAIN raw.messages |-> Msg(raw.messages[i][1], raw.messages[i][2]) ]

\* values a key of the session namespace can hold that RedisStore did not
\* write: a text that is not JSON, and a JSON text that is not an object
\* (such as "[]")
NotJson == [kind |-> "text", messages |-> <<>>]

JsonNotSession == [kind |-> "json_other", messages |-> <<>>]

ForeignValues == {NotJson, JsonNotSession}

\* json.loads(raw) does not raise
Parses(raw) == raw.kind # "text"

\* json.loads(raw) is a dict
IsSession(raw) == raw.kind = "json"

\* RedisStore.get_session once GET has answered; raw is {} for an absent key,
\* {value} otherwise
RedisSession(raw) ==
    IF raw = {} THEN <<>>
    ELSE LET v == CHOOSE x \in raw : TRUE
         IN  IF Parses(v) THEN Loads(v) ELSE <<>>

\* ------------------------------------------------------------------------
\* services/ddg_service.py
\* ------------------------------------------------------------------------

\* text[:60] of a related topic without " - "
TitleMaxLen == 60

\* results asked of ddg_service.search by /chat
ChatMaxResults == 5

\* results that go into the search context
ContextResults == 3

DDGFailure ==
    [ok |-> FALSE, Abstract |-> <<>>, hasHeading |-> FALSE, Heading |-> <<>>,
     AbstractURL |-> <<>>, RelatedTopics |-> <<>>]

DDGNothing ==
    [ok |-> TRUE, Abstract |-> <<>>, hasHeading |-> FALSE, Heading |-> <<>>,
     AbstractURL |-> <<>>, RelatedTopics |-> <<>>]

DDGAnswer ==
    [ok |-> TRUE, Abstract |-> <<"abstract">>, hasHeading |-> TRUE,
     Heading |-> <<"heading">>, AbstractURL |-> <<"url1">>,
     RelatedTopics |-> << [FirstURL |-> <<"url2">>,
                           Text |-> <<"topic", " - ", "details">>] >>]

\* what the DuckDuckGo request of one search can come back with: a transport
\* error or timeout, an answer without content, an answer with content
DDGResponses == {DDGFailure, DDGNothing, DDGAnswer}

\* text.split(" - ")[0] if " - " in text else text[:60]
TopicTitle(text) ==
    IF \E i \in DOMAIN text : text[i] = " - "
    THEN SubSeq(text, 1, Min({ i \in DOMAIN text : text[i] = " - " }) - 1)
    ELSE Take(text, TitleMaxLen)

\* the results of the abstract and of the related topics, before deduplication
DDGResults(query, data) ==
    LET abstract ==
            IF data.Abstract # <<>>
            THEN << [title   |-> IF data.hasHeading THEN data.Heading ELSE query,
                     snippet |-> data.Abstract,
                     url     |-> data.AbstractURL] >>
            ELSE <<>>
        topic(item) ==
            [title |-> TopicTitle(item.Text), snippet |-> item.Text, url |-> item.FirstURL]
        RECURSIVE topics(_)
        topics(items) ==
            IF items = <<>> THEN <<>>
            ELSE IF Head(items).FirstURL # <<>> /\ Head(items).Text # <<>>
                 THEN <<topic(Head(items))>> \o topics(Tail(items))
                 ELSE topics(Tail(items))
    IN  abstract \o topics(data.RelatedTopics)

RECURSIVE Deduplicate(_, _)
DeduplicateNothing(results, seen) ==
    SelectSeq(results, LAMBDA item : item.url # <<>> /\ item.url \notin seen)

\* the loop "Deduplicate by URL"
Deduplicate(results, seen) ==
    IF results = <<>> THEN <<>>
    ELSE LET url == Head(results).url
         IN  IF url # <<>> /\ url \notin seen
             THEN <<Head(results)>> \o Deduplicate(Tail(results), seen \cup {url})
             ELSE Deduplicate(Tail(results), seen)

\* ddg_service.search(query, max_results), given what the request came back with
search(query, max_results, response) ==
    IF ~response.ok THEN <<>>
    ELSE Take(Deduplicate(DDGResults(query, response), {}), max_results)

\* ------------------------------------------------------------------------
\* Provider services: what chat() returns or raises, given what the
\* provider's API did ("text": an answer; "empty": an answer without text;
\* "error": transport error or timeout).  The services also tell "malformed",
\* an answer of an unexpected shape.
\* ------------------------------------------------------------------------

CollaboratorOutcomes == {"text", "empty", "error"}

ProviderText == <<" ", "Sure.", "\n">>

EmptyText == <<" ">>

MalformedText == <<"<html>">>

Returned(text) == [raised |-> FALSE, text |-> text]

Raised == [raised |-> TRUE, text |-> <<>>]

GeminiFallbacks ==
    { <<"Sorry, the AI service is currently unavailable.">>,
      <<"Sorry, I couldn't process your request.">> }

GroqFallbacks ==
    { <<"Sorry, the AI service is currently unavailable.">>,
      <<"Sorry, I couldn't generate a response.">>,
      <<"Sorry, I couldn't process your request (Groq error).">> }

HFFallbacks ==
    { <<"Please provide a valid prompt.">>,
      <<"Hugging Face unavailable.">>,
      <<"Sorry, I couldn't generate a response.">>,
      <<"Model is warming up, please try again in a moment.">>,
      <<"Model is warming up, please try again shortly.">>,
      <<"Sorry, HF service error.">>,
      <<"Sorry, unexpected response from Hugging Face.">>,
      <<"Sorry, invalid response from Hugging Face.">> }

\* the fixed fallback strings of the services
FallbackStrings == GeminiFallbacks \cup GroqFallbacks \cup HFFallbacks

\* gemini_service.chat(messages)
gemini_chat(messages, outcome) ==
    CASE outcome = "text"  -> Returned(Strip(ProviderText))
      [] outcome = "empty" -> Returned(Strip(EmptyText))
      [] OTHER             -> Returned(<<"Sorry, I couldn't process your request.">>)

\* groq_service.chat(messages)
groq_chat(messages, outcome) ==
    CASE outcome = "text"  -> Returned(Strip(ProviderText))
      [] outcome = "empty" -> Returned(<<"Sorry, I couldn't generate a response.">>)
      [] OTHER             -> Returned(<<"Sorry, I couldn't process your request (Groq error).">>)

\* hf_service.chat(prompt)
hf_chat(prompt, outcome) ==
    IF Strip(prompt) = <<>> THEN Returned(<<"Please provide a valid prompt.">>)
    ELSE CASE outcome = "text"      -> Returned(Strip(ProviderText))
           [] outcome = "empty"     -> Returned(<<"Sorry, I couldn't generate a response.">>)
           [] outcome = "malformed" -> Returned(<<"Sorry, unexpected response from Hugging Face.">>)
           [] OTHER                 -> Returned(<<"Sorry, HF service error.">>)

\* pollinations_service.chat(prompt)
pollinations_chat(prompt, outcome) ==
    CASE outcome = "text"      -> Returned(Strip(ProviderText))
      [] outcome = "empty"     -> Returned(Strip(EmptyText))
      [] outcome = "malformed" -> Returned(Strip(MalformedText))
      [] OTHER                 -> Raised


\* the call  <provider>_service.chat(arg)  of /chat
provider_chat(provider, arg, outcome) ==
    CASE provider = "gemini" -> gemini_chat(arg, outcome)
      [] provider = "groq"   -> groq_chat(arg, outcome)
      [] provider = "hf"     -> hf_chat(arg, outcome)
      [] OTHER               -> pollinations_chat(arg, outcome)

\* ------------------------------------------------------------------------
\* The server: session stores, request handlers, event loop
\* ------------------------------------------------------------------------

\* request handlers (coroutines of /chat) that can be in progress at once
TurnSeq == <<"t1", "t2">>

Turns == Range(TurnSeq)

NoTurn == "none"

\* the value of the session-id header when it is absent
NoSession == <<>>

\* ids a client makes up; no uuid4 equals one of them
ClientIds == { <<"client", 1>> }

\* the k-th id that uuid.uuid4() returns
Uuid(k) == <<"uuid", k>>

SessionIds == ClientIds \cup { Uuid(k) : k \in 1..MaxRequests }

\* list objects of the Python heap: every list a session or a handler holds
NumObjs == Cardinality(SessionIds) + Cardinality(Turns)

Objs == 1..NumObjs

NoRef == NumObjs + 1

StoreKinds == {"memory", "redis"}

\* prompts of the clients
PromptHi == <<"h","i">>

PromptFind == <<"F","i","n","d"," ","x">>

Prompts == {PromptHi, PromptFind}

ModelChoices == Providers \cup {"auto"}

\* edit_index of a request: {} when absent, {n} when n is sent
NoRequest == [prompt |-> <<>>, model |-> "auto", edit_index |-> {}]

NoCall == [fn |-> "", arg |-> <<>>]

\* the locals of a handler that is not running
IdleTurn ==
    [pc |-> "idle", session_id |-> NoSession, req |-> NoRequest, history |-> NoRef,
     search_results |-> <<>>, picked |-> "", call |-> NoCall, payload |-> Dumps(<<>>),
     reply |-> <<>>, status |-> 0, resp_history |-> <<>>]

\* what the model remembers of a turn to state properties of it
\*   loaded        the conversation get_session returned
\*   base          the working conversation after the edit step
\*   effects       what the steps of the turn changed in the store
\*   overtaken     the handlers that persisted the same session since the load
\*   search_failed the search ran and gave no results
\*   outcome       what the provider's API did
\*   store_failed  a call of the store raised
\*   unknown       why the store did not know the session id when it was read:
\*                 "absent", "not_json", "not_session"; "" when it knew it
\*   read_failed   reading the session (main.py 213-214) raised
NoGhost ==
    [loaded |-> <<>>, base |-> <<>>, effects |-> {}, overtaken |-> {},
     search_failed |-> FALSE, outcome |-> "", store_failed |-> FALSE,
     unknown |-> "", read_failed |-> FALSE]

VARIABLES
    store_kind,   \* which store build_store() returned
    heap,         \* the list objects: heap[o] is the list's content
    db,           \* InMemoryStore._db: session id -> the list of its "messages"
    rdb,          \* the keys of the Redis server: session id -> payload
    turn,         \* the locals of each handler
    ghost,        \* history variables of each handler
    running,      \* the handler that holds the event loop, or NoTurn
    nreq,         \* requests accepted so far
    nuuid,        \* uuids generated so far
    route_map,    \* the keyword table given to the router
    route_prompt, \* the prompt given to the router
    route_result, \* what pick_model returned for it, "" before the call
    trigger_prompt, \* the prompt given to should_search and extract_query
    trigger_words,  \* the words the prompt was put together from
    trigger_result, \* what they returned for it
    ddg_call,     \* the arguments of a call of ddg_service.search and what
                  \* its request came back with
    ddg_result    \* what the call returned

router == <<route_map, route_prompt, route_result>>

trigger == <<trigger_prompt, trigger_words, trigger_result>>

ddg == <<ddg_call, ddg_result>>

\* the variables of the functions checked on their own
functions == <<router, trigger, ddg>>

server == <<store_kind, heap, db, rdb, turn, ghost, running, nreq, nuuid>>

vars == <<server, functions>>

\* what get_session(s) returns, as a conversation
View(s) ==
    IF store_kind = "memory"
    THEN IF s \in DOMAIN db THEN heap[db[s]] ELSE <<>>
    ELSE RedisSession(IF s \in DOMAIN rdb THEN {rdb[s]} ELSE {})

\* the session ids the store holds
Keys == IF store_kind = "memory" THEN DOMAIN db ELSE DOMAIN rdb

\* the list a handler works on
Working(t) == heap[turn[t].history]

\* objects some session or some handler refers to
Referenced(d, tn) == Range(d) \cup { tn[u].history : u \in Turns }

\* a list object nothing refers to: a newly created list
NewList(d, tn) == Min(Objs \ Referenced(d, tn))

\* the heap without the content of the objects nothing refers to
Collect(h, d, tn) == [ o \in Objs |-> IF o \in Referenced(d, tn) THEN h[o] ELSE <<>> ]

\* dict d with d[k] = v
DictSet(d, k, v) == [ x \in DOMAIN d \cup {k} |-> IF x = k THEN v ELSE d[x] ]

EmptyDict == [ x \in {} |-> NoRef ]

\* what the Redis server holds when the program starts: nothing, or under a
\* client's id a value that RedisStore did not write
RedisContents ==
    {EmptyDict} \cup { DictSet(EmptyDict, c, v) : c \in ClientIds, v \in ForeignValues }

\* no call of the functions checked on their own
RouterIdle == route_map = KEYWORD_MAP /\ route_prompt = <<>> /\ route_result = ""

NoTriggerResult == [called |-> FALSE, should_search |-> FALSE, query |-> <<>>]

TriggerIdle ==
    trigger_prompt = <<>> /\ trigger_words = <<>> /\ trigger_result = NoTriggerResult

NoDDGCall == [query |-> <<>>, max_results |-> 0, response |-> DDGFailure]

NoDDGResult == [called |-> FALSE, results |-> <<>>]

DDGIdle == ddg_call = NoDDGCall /\ ddg_result = NoDDGResult

\* the server with nothing stored and no request in progress
ServerIdle ==
    /\ heap = [ o \in Objs |-> <<>> ]
    /\ db = EmptyDict
    /\ rdb = EmptyDict
    /\ turn = [ t \in Turns |-> IdleTurn ]
    /\ ghost = [ t \in Turns |-> NoGhost ]
    /\ running = NoTurn
    /\ nreq = 0
    /\ nuuid = 0

Init ==
    /\ store_kind \in StoreKinds
    /\ heap = [ o \in Objs |-> <<>> ]
    /\ db = EmptyDict
    /\ rdb = EmptyDict
    /\ turn = [ t \in Turns |-> IdleTurn ]
    /\ ghost = [ t \in Turns |-> NoGhost ]
    /\ running = NoTurn
    /\ nreq = 0
    /\ nuuid = 0
    /\ RouterIdle
    /\ TriggerIdle
    /\ DDGIdle

\* the effects on the store of the step being taken
StepEffects ==
    (IF Keys' # Keys THEN {"session"} ELSE {})
    \cup (IF \E s \in SessionIds : View(s)' # View(s) THEN {"conversation"} ELSE {})

\* the handlers other than t that loaded session sid and have not finished
Racing(t, sid) ==
    { u \in Turns \ {t} :
        /\ turn[u].session_id = sid
        /\ turn[u].pc \in {"edit", "search_decision", "search_wait", "pick",
                           "dispatch_wait", "set_wait"} }

\* ghost' after a step of t that sets the fields upd of t's ghost;
\* persisted: the step is t's set_session
GhostAfter(t, mine, persisted) ==
    [ u \in Turns |->
        IF u = t THEN [mine EXCEPT !.effects = @ \cup StepEffects]
        ELSE IF persisted /\ u \in Racing(t, turn[t].session_id)
             THEN [ghost[u] EXCEPT !.overtaken = @ \cup {t}]
             ELSE ghost[u] ]

\* A request arrives and the first free handler starts on it.  The fields of
\* the request enter the state where the handler first reads them: the
\* session-id header in SessionGiven, edit_index in Edit*, the prompt in
\* Search*, the model in Pick.  No step before depends on them.
Request(t) ==
    /\ running = NoTurn
    /\ turn[t].pc = "idle"
    /\ t = TurnSeq[Min({ i \in DOMAIN TurnSeq : turn[TurnSeq[i]].pc = "idle" })]
    /\ nreq < MaxRequests
    /\ turn' = [turn EXCEPT ![t] = [IdleTurn EXCEPT !.pc = "ensure_session"]]
    /\ running' = t
    /\ nreq' = nreq + 1
    /\ ghost' = [ghost EXCEPT ![t] = NoGhost]
    /\ UNCHANGED <<functions, store_kind, heap, db, rdb, nuuid>>

\* the handler's locals when it has ended with an error status
Failed(t, status) ==
    [turn[t] EXCEPT !.pc = "done", !.status = status, !.history = NoRef, !.call = NoCall]

\* the handler's locals when it has returned its ChatResponse
Succeeded(t, h) ==
    [turn[t] EXCEPT !.pc = "done", !.status = 200, !.history = NoRef,
                    !.resp_history = to_messages(h)]

\* "if not session_id" is false: the request names its session
SessionGiven(t, sid) ==
    /\ running = t
    /\ turn[t].pc = "ensure_session"
    /\ sid \in ClientIds \cup { Uuid(k) : k \in 1..nuuid }
    /\ turn' = [turn EXCEPT ![t].pc = "load", ![t].session_id = sid]
    /\ UNCHANGED <<functions, store_kind, heap, db, rdb, ghost, running, nreq, nuuid>>

NewSessionListShared(d, tn) == Min(Objs)

\* the list of  {"messages": []}  in InMemoryStore.new_session
NewSessionList(d, tn) == NewList(d, tn)

\* InMemoryStore.new_session(): it does not suspend
NewSessionMemory(t) ==
    /\ running = t
    /\ turn[t].pc = "ensure_session"
    /\ store_kind = "memory"
    /\ LET sid == Uuid(nuuid + 1)
           o   == NewSessionList(db, turn)
       IN  /\ db' = DictSet(db, sid, o)
           /\ turn' = [turn EXCEPT ![t].pc = "load", ![t].session_id = sid]
           /\ heap' = Collect(heap, db', turn')
    /\ nuuid' = nuuid + 1
    /\ UNCHANGED <<functions, store_kind, rdb, running, nreq>>
    /\ ghost' = GhostAfter(t, ghost[t], FALSE)

\* RedisStore.new_session() up to its await of SET
NewSessionRedis(t) ==
    /\ running = t
    /\ turn[t].pc = "ensure_session"
    /\ store_kind = "redis"
    /\ turn' = [turn EXCEPT ![t].pc = "new_session_wait",
                            ![t].session_id = Uuid(nuuid + 1),
                            ![t].payload = Dumps(<<>>)]
    /\ nuuid' = nuuid + 1
    /\ running' = NoTurn
    /\ UNCHANGED <<functions, store_kind, heap, db, rdb, ghost, nreq>>

\* the SET of new_session is done and the handler resumes
NewSessionDone(t) ==
    /\ running = NoTurn
    /\ turn[t].pc = "new_session_wait"
    /\ rdb' = DictSet(rdb, turn[t].session_id, turn[t].payload)
    /\ turn' = [turn EXCEPT ![t].pc = "load"]
    /\ running' = t
    /\ UNCHANGED <<functions, store_kind, heap, db, nreq, nuuid>>
    /\ ghost' = GhostAfter(t, ghost[t], FALSE)

\* the SET of new_session raises: nothing in chat() catches it
NewSessionFailed(t) ==
    /\ running = NoTurn
    /\ turn[t].pc = "new_session_wait"
    /\ turn' = [turn EXCEPT ![t] = Failed(t, 500)]
    /\ heap' = Collect(heap, db, turn')
    /\ running' = t
    /\ ghost' = [ghost EXCEPT ![t].store_failed = TRUE]
    /\ UNCHANGED <<functions, store_kind, db, rdb, nreq, nuuid>>

\* the list of the default  {"messages": []}  in InMemoryStore.get_session
DefaultSession(d, tn) == NewList(d, tn)

\* InMemoryStore.get_session() and  history = session_data.get("messages", []):
\* history is the stored list itself
LoadMemory(t) ==
    /\ running = t
    /\ turn[t].pc = "load"
    /\ store_kind = "memory"
    /\ LET sid == turn[t].session_id
           o   == IF sid \in DOMAIN db THEN db[sid] ELSE DefaultSession(db, turn)
       IN  /\ turn' = [turn EXCEPT ![t].pc = "edit", ![t].history = o]
           /\ heap' = Collect(heap, db, turn')
           /\ ghost' = [ghost EXCEPT ![t].loaded = heap[o],
                                     ![t].unknown = IF sid \in DOMAIN db THEN "" ELSE "absent"]
    /\ UNCHANGED <<functions, store_kind, db, rdb, running, nreq, nuuid>>

\* RedisStore.get_session() up to its await of GET
LoadRedis(t) ==
    /\ running = t
    /\ turn[t].pc = "load"
    /\ store_kind = "redis"
    /\ turn' = [turn EXCEPT ![t].pc = "get_wait"]
    /\ running' = NoTurn
    /\ UNCHANGED <<functions, store_kind, heap, db, rdb, ghost, nreq, nuuid>>

\* the GET is done: get_session returns a dict, of json.loads or the default,
\* and  session_data.get("messages", [])  is a new list
GetDone(t) ==
    /\ running = NoTurn
    /\ turn[t].pc = "get_wait"
    /\ LET sid  == turn[t].session_id
           raw  == IF sid \in DOMAIN rdb THEN {rdb[sid]} ELSE {}
           conv == RedisSession(raw)
           o    == NewList(db, turn)
       IN  /\ \A v \in raw : Parses(v) => IsSession(v)
           /\ turn' = [turn EXCEPT ![t].pc = "edit", ![t].history = o]
           /\ heap' = Collect([heap EXCEPT ![o] = conv], db, turn')
           /\ ghost' = [ghost EXCEPT ![t].loaded = conv,
                                     ![t].unknown = IF raw = {} THEN "absent"
                                                    ELSE IF \E v \in raw : ~Parses(v)
                                                         THEN "not_json" ELSE ""]
    /\ running' = t
    /\ UNCHANGED <<functions, store_kind, db, rdb, nreq, nuuid>>

\* the GET is done and json.loads gives a value that is no dict: get_session
\* returns it, and  session_data.get  raises; nothing in chat() catches it
GetMalformed(t) ==
    /\ running = NoTurn
    /\ turn[t].pc = "get_wait"
    /\ turn[t].session_id \in DOMAIN rdb
    /\ Parses(rdb[turn[t].session_id]) /\ ~IsSession(rdb[turn[t].session_id])
    /\ turn' = [turn EXCEPT ![t] = Failed(t, 500)]
    /\ heap' = Collect(heap, db, turn')
    /\ running' = t
    /\ ghost' = [ghost EXCEPT ![t].unknown = "not_session", ![t].read_failed = TRUE]
    /\ UNCHANGED <<functions, store_kind, db, rdb, nreq, nuuid>>

\* the GET raises: nothing in chat() catches it
GetFailed(t) ==
    /\ running = NoTurn
    /\ turn[t].pc = "get_wait"
    /\ turn' = [turn EXCEPT ![t] = Failed(t, 500)]
    /\ heap' = Collect(heap, db, turn')
    /\ running' = t
    /\ ghost' = [ghost EXCEPT ![t].store_failed = TRUE, ![t].read_failed = TRUE]
    /\ UNCHANGED <<functions, store_kind, db, rdb, nreq, nuuid>>

TruncateTail(h, n) == SubSeq(h, n + 1, Len(h))

\* history[: req.edit_index]
Truncate(h, n) == SubSeq(h, 1, n)

\* req.edit_index is None
EditNone(t) ==
    /\ running = t
    /\ turn[t].pc = "edit"
    /\ turn' = [turn EXCEPT ![t].pc = "search_decision", ![t].req.edit_index = {}]
    /\ ghost' = [ghost EXCEPT ![t].base = Working(t)]
    /\ UNCHANGED <<functions, store_kind, heap, db, rdb, running, nreq, nuuid>>

\* 0 <= req.edit_index <= len(history): history becomes a new, shorter list
EditTruncate(t, n) ==
    /\ running = t
    /\ turn[t].pc = "edit"
    /\ n \in (-1)..MaxEditIndex
    /\ LET h == Working(t)
           o == NewList(db, turn)
       IN  /\ 0 <= n /\ n <= Len(h)
           /\ turn' = [turn EXCEPT ![t].pc = "search_decision", ![t].history = o,
                                   ![t].req.edit_index = {n}]
           /\ heap' = Collect([heap EXCEPT ![o] = Truncate(h, n)], db, turn')
           /\ ghost' = [ghost EXCEPT ![t].base = heap'[o]]
    /\ UNCHANGED <<functions, store_kind, db, rdb, running, nreq, nuuid>>

\* edit_index out of range: HTTPException(400)
EditRejected(t, n) ==
    /\ running = t
    /\ turn[t].pc = "edit"
    /\ n \in (-1)..MaxEditIndex
    /\ ~(0 <= n /\ n <= Len(Working(t)))
    /\ turn' = [turn EXCEPT ![t] = [Failed(t, 400) EXCEPT !.req.edit_index = {n}]]
    /\ heap' = Collect(heap, db, turn')
    /\ running' = t
    /\ UNCHANGED <<functions, store_kind, db, rdb, ghost, nreq, nuuid>>

\* brain_service.should_search(req.prompt): the search runs in the thread pool
SearchStart(t, prompt) ==
    /\ running = t
    /\ turn[t].pc = "search_decision"
    /\ should_search(prompt)
    /\ turn' = [turn EXCEPT ![t].pc = "search_wait", ![t].req.prompt = prompt,
                            ![t].call = [fn |-> "ddg", arg |-> extract_query(prompt)]]
    /\ running' = NoTurn
    /\ UNCHANGED <<functions, store_kind, heap, db, rdb, ghost, nreq, nuuid>>

\* should_search is false
SearchSkip(t, prompt) ==
    /\ running = t
    /\ turn[t].pc = "search_decision"
    /\ ~should_search(prompt)
    /\ turn' = [turn EXCEPT ![t].pc = "pick", ![t].req.prompt = prompt]
    /\ UNCHANGED <<functions, store_kind, heap, db, rdb, ghost, running, nreq, nuuid>>

\* "\n".join(f"Title: {r['title']}\nSnippet: {r['snippet']}" for r in search_results[:3])
SearchContext(results) ==
    LET top == Take(results, ContextResults)
    IN  Join(<<"\n">>,
             [ i \in DOMAIN top |->
                 <<"Title: ">> \o top[i].title \o <<"\nSnippet: ">> \o top[i].snippet ])

SearchContextAlways(results) ==
    << Msg("system", <<"Search context:\n">> \o SearchContext(results)) >>

\* the messages that  "if search_results: ... append_message(history, "system", ...)"  adds
SearchContextMessages(results) ==
    IF results # <<>>
    THEN << Msg("system", <<"Search context:\n">> \o SearchContext(results)) >>
    ELSE <<>>

\* ddg_service.search has returned and the handler resumes
SearchDone(t, response) ==
    /\ running = NoTurn
    /\ turn[t].pc = "search_wait"
    /\ response \in DDGResponses
    /\ LET results == search(turn[t].call.arg, ChatMaxResults, response)
       IN  /\ heap' = [heap EXCEPT ![turn[t].history] = @ \o SearchContextMessages(results)]
           /\ turn' = [turn EXCEPT ![t].pc = "pick", ![t].search_results = results,
                                   ![t].call = NoCall]
    /\ running' = t
    /\ UNCHANGED <<functions, store_kind, db, rdb, nreq, nuuid>>
    /\ ghost' = GhostAfter(t, [ghost[t] EXCEPT !.search_failed = (turn'[t].search_results = <<>>)],
                           FALSE)

PickedUnchecked(r) ==
    IF r.model = "auto" THEN pick_model(r.prompt) ELSE r.model

\* "Auto-model selection"
Picked(r) ==
    LET picked == IF r.model = "auto" THEN pick_model(r.prompt) ELSE r.model
    IN  IF picked \notin Providers THEN "gemini" ELSE picked

\* the prompt_text of the hf branch
HFPromptText(prompt, results) ==
    IF results # <<>>
    THEN LET top == Take(results, ContextResults)
             ctx == Join(<<" ">>, [ i \in DOMAIN top |-> top[i].snippet ])
         IN  <<"Context: ">> \o ctx \o <<"\n\nQuestion: ">> \o prompt
    ELSE prompt

\* the argument of the provider's chat()
ProviderArg(picked, h, prompt, results) ==
    CASE picked \in {"gemini", "groq"} -> h
      [] picked = "hf"                 -> HFPromptText(prompt, results)
      [] OTHER                         -> prompt

\* model selection, "Record user prompt", and the provider call in the thread pool
Pick(t, model) ==
    /\ running = t
    /\ turn[t].pc = "pick"
    /\ model \in ModelChoices
    /\ LET r      == [turn[t].req EXCEPT !.model = model]
           picked == Picked(r)
           h      == append_message(Working(t), "user", r.prompt)
       IN  /\ heap' = [heap EXCEPT ![turn[t].history] = h]
           /\ turn' = [turn EXCEPT ![t].pc = "dispatch_wait", ![t].picked = picked,
                         ![t].req = r,
                         ![t].call = [fn  |-> picked,
                                      arg |-> ProviderArg(picked, h, r.prompt,
                                                          turn[t].search_results)]]
    /\ running' = NoTurn
    /\ UNCHANGED <<functions, store_kind, db, rdb, nreq, nuuid>>
    /\ ghost' = GhostAfter(t, ghost[t], FALSE)

\* what the provider's chat() does in this turn
ChatResult(t, outcome) == provider_chat(turn[t].picked, turn[t].call.arg, outcome)

\* chat() raised: "except Exception" answers 500
DispatchRaised(t, outcome) ==
    /\ running = NoTurn
    /\ turn[t].pc = "dispatch_wait"
    /\ outcome \in CollaboratorOutcomes
    /\ ChatResult(t, outcome).raised
    /\ turn' = [turn EXCEPT ![t] = Failed(t, 500)]
    /\ heap' = Collect(heap, db, turn')
    /\ running' = t
    /\ ghost' = [ghost EXCEPT ![t].outcome = outcome]
    /\ UNCHANGED <<functions, store_kind, db, rdb, nreq, nuuid>>

\* chat() returned; InMemoryStore.set_session does not suspend
DispatchedMemory(t, outcome) ==
    /\ running = NoTurn
    /\ turn[t].pc = "dispatch_wait"
    /\ outcome \in CollaboratorOutcomes
    /\ store_kind = "memory"
    /\ ~ChatResult(t, outcome).raised
    /\ LET reply == ChatResult(t, outcome).text
           h     == append_message(Working(t), "assistant", reply)
       IN  /\ db' = DictSet(db, turn[t].session_id, turn[t].history)
           /\ turn' = [turn EXCEPT ![t] = [Succeeded(t, h) EXCEPT !.reply = reply, !.call = NoCall]]
           /\ heap' = Collect([heap EXCEPT ![turn[t].history] = h], db', turn')
    /\ running' = t
    /\ UNCHANGED <<functions, store_kind, rdb, nreq, nuuid>>
    /\ ghost' = GhostAfter(t, [ghost[t] EXCEPT !.outcome = outcome], TRUE)

\* chat() returned; RedisStore.set_session up to its await of SET
DispatchedRedis(t, outcome) ==
    /\ running = NoTurn
    /\ turn[t].pc = "dispatch_wait"
    /\ outcome \in CollaboratorOutcomes
    /\ store_kind = "redis"
    /\ ~ChatResult(t, outcome).raised
    /\ LET reply == ChatResult(t, outcome).text
           h     == append_message(Working(t), "assistant", reply)
       IN  /\ heap' = [heap EXCEPT ![turn[t].history] = h]
           /\ turn' = [turn EXCEPT ![t].pc = "set_wait", ![t].reply = reply,
                                   ![t].payload = Dumps(h), ![t].call = NoCall]
           /\ ghost' = [ghost EXCEPT ![t].outcome = outcome]
    /\ UNCHANGED <<functions, store_kind, db, rdb, running, nreq, nuuid>>

\* the SET of set_session is done: the handler returns its ChatResponse
SetDone(t) ==
    /\ running = NoTurn
    /\ turn[t].pc = "set_wait"
    /\ rdb' = DictSet(rdb, turn[t].session_id, turn[t].payload)
    /\ turn' = [turn EXCEPT ![t] = Succeeded(t, Working(t))]
    /\ heap' = Collect(heap, db, turn')
    /\ running' = t
    /\ UNCHANGED <<functions, store_kind, db, nreq, nuuid>>
    /\ ghost' = GhostAfter(t, ghost[t], TRUE)

\* the response (or the error) leaves the handler, which ends
Respond(t) ==
    /\ running = t
    /\ turn[t].pc = "done"
    /\ turn' = [turn EXCEPT ![t] = IdleTurn]
    /\ ghost' = [ghost EXCEPT ![t] = NoGhost]
    /\ running' = NoTurn
    /\ UNCHANGED <<functions, store_kind, heap, db, rdb, nreq, nuuid>>

\* the SET of set_session raises: "except Exception" answers 500
SetFailed(t) ==
    /\ running = NoTurn
    /\ turn[t].pc = "set_wait"
    /\ turn' = [turn EXCEPT ![t] = Failed(t, 500)]
    /\ heap' = Collect(heap, db, turn')
    /\ running' = t
    /\ ghost' = [ghost EXCEPT ![t].store_failed = TRUE]
    /\ UNCHANGED <<functions, store_kind, db, rdb, nreq, nuuid>>

\* a step of handler t, when the clients send the prompts of the set prompts
Step(t, prompts) ==
        \/ Request(t)
        \/ \E sid \in SessionIds : SessionGiven(t, sid)
        \/ NewSessionMemory(t)
        \/ NewSessionRedis(t)
        \/ NewSessionDone(t)
        \/ NewSessionFailed(t)
        \/ LoadMemory(t)
        \/ LoadRedis(t)
        \/ GetDone(t)
        \/ GetFailed(t)
        \/ EditNone(t)
        \/ \E n \in (-1)..MaxEditIndex :
              \/ EditTruncate(t, n)
              \/ EditRejected(t, n)
        \/ \E prompt \in prompts :
              \/ SearchStart(t, prompt)
              \/ SearchSkip(t, prompt)
        \/ \E response \in DDGResponses : SearchDone(t, response)
        \/ \E model \in ModelChoices : Pick(t, model)
        \/ \E outcome \in CollaboratorOutcomes :
              \/ DispatchRaised(t, outcome)
              \/ DispatchedMemory(t, outcome)
              \/ DispatchedRedis(t, outcome)
        \/ SetDone(t)
        \/ SetFailed(t)
        \/ Respond(t)

Next == \E t \in Turns : Step(t, Prompts)

Spec == Init /\ [][Next]_vars

\* ------------------------------------------------------------------------
\* One request on a server that has answered the others without a change of
\* the store, with more kinds of input: a prompt that is nothing but a search
\* trigger, and a Redis server that holds a value RedisStore did not write
\* ------------------------------------------------------------------------

PromptSearch == <<"s","e","a","r","c","h">>

AllPrompts == Prompts \cup {PromptSearch}

InitInputs ==
    /\ store_kind \in StoreKinds
    /\ heap = [ o \in Objs |-> <<>> ]
    /\ db = EmptyDict
    /\ rdb \in IF store_kind = "redis" THEN RedisContents ELSE {EmptyDict}
    /\ turn = [ t \in Turns |-> IdleTurn ]
    /\ ghost = [ t \in Turns |-> NoGhost ]
    /\ running = NoTurn
    /\ nreq = MaxRequests - 1
    /\ nuuid = 0
    /\ RouterIdle
    /\ TriggerIdle
    /\ DDGIdle

NextInputs ==
    \E t \in Turns :
        \/ Step(t, AllPrompts)
        \/ GetMalformed(t)

SpecInputs == InitInputs /\ [][NextInputs]_vars

\* ------------------------------------------------------------------------
\* The router alone: pick_model on every short prompt and several tables
\* ------------------------------------------------------------------------

RouterAlphabet == {"a", "b", "A", " "}

RouterPrompts == UNION { [1..n -> RouterAlphabet] : n \in 0..MaxPromptLen }

\* keyword tables: keywords are words or phrases, given in file order
RouterConfigs ==
    { <<>>,
      << [keyword |-> <<"a">>, model |-> "groq"],
         [keyword |-> <<"b">>, model |-> "hf"] >>,
      << [keyword |-> <<"b">>, model |-> "hf"],
         [keyword |-> <<"a">>, model |-> "groq"] >>,
      << [keyword |-> <<"a">>, model |-> "groq"],
         [keyword |-> <<"a"," ","b">>, model |-> "pollinations"] >>,
      << [keyword |-> <<"a"," ","b">>, model |-> "pollinations"],
         [keyword |-> <<"a","b">>, model |-> "hf"],
         [keyword |-> <<"A">>, model |-> "groq"] >> }

InitRouter ==
    /\ store_kind = "memory"
    /\ ServerIdle
    /\ TriggerIdle
    /\ DDGIdle
    /\ route_map \in RouterConfigs
    /\ route_prompt \in RouterPrompts
    /\ route_result = ""

\* pick_model(prompt) with the table route_map
Route ==
    /\ route_result = ""
    /\ route_result' = pick_model_in(route_map, route_prompt)
    /\ UNCHANGED <<server, route_map, route_prompt, trigger, ddg>>

NextRouter == Route

SpecRouter == InitRouter /\ [][NextRouter]_vars

\* ------------------------------------------------------------------------
\* The search trigger alone: should_search and extract_query on prompts put
\* together from one trigger, in some letter case, and other words
\* ------------------------------------------------------------------------

TriggerForms ==
    { <<"s","e","a","r","c","h">>,
      <<"F","I","N","D">>,
      <<"L","o","o","k"," ","U","p">>,
      <<"g","o","o","g","l","e">>,
      <<"D","u","c","k","D","u","c","k","G","o">> }

\* words that are no trigger; some hold a trigger inside, one is a part of a
\* trigger phrase
OtherWords ==
    { <<"x">>, <<"t","h","e">>, <<"U","p">>,
      <<"f","i","n","d","e","r">>, <<"R","e","f","i","n","d">> }

\* what stands between two words, and before and behind the prompt
Separators == { <<" ">>, <<" ","\t"," ">> }

Margins == { <<>>, <<" ">> }

\* n words with the trigger tf at place pos and the words of others around it
WordsWith(n, pos, tf, others) ==
    [ i \in 1..n |->
        IF i = pos THEN [text |-> tf, is_trigger |-> TRUE]
        ELSE [text |-> others[IF i < pos THEN i ELSE i - 1], is_trigger |-> FALSE] ]

\* the prompt text of the words, with the separators between them
RECURSIVE PromptOf(_, _)
PromptOf(words, seps) ==
    IF Len(words) = 1 THEN words[1].text
    ELSE words[1].text \o seps[1] \o PromptOf(Tail(words), Tail(seps))

TriggerInputs ==
    UNION { { [words  |-> WordsWith(n, pos, tf, others),
               prompt |-> lead \o PromptOf(WordsWith(n, pos, tf, others), seps) \o trail] :
                pos \in 1..n, tf \in TriggerForms, others \in [1..(n - 1) -> OtherWords],
                seps \in [1..(n - 1) -> Separators], lead \in Margins, trail \in Margins } :
            n \in 2..(MaxOtherWords + 1) }

InitTrigger ==
    /\ store_kind = "memory"
    /\ ServerIdle
    /\ RouterIdle
    /\ DDGIdle
    /\ \E in \in TriggerInputs : trigger_words = in.words /\ trigger_prompt = in.prompt
    /\ trigger_result = NoTriggerResult

\* should_search(prompt) and extract_query(prompt), as /chat calls them
Trigger ==
    /\ ~trigger_result.called
    /\ trigger_result' = [called        |-> TRUE,
                          should_search |-> should_search(trigger_prompt),
                          query         |-> extract_query(trigger_prompt)]
    /\ UNCHANGED <<server, router, ddg, trigger_prompt, trigger_words>>

NextTrigger == Trigger

SpecTrigger == InitTrigger /\ [][NextTrigger]_vars

\* ------------------------------------------------------------------------
\* The search service alone: ddg_service.search on every small response
\* ------------------------------------------------------------------------

\* related topics: with an url or without, two with the same url and
\* different texts, with a text or without, with " - " in the text or without
TopicItems ==
    { [FirstURL |-> u, Text |-> x] :
        u \in {<<>>, <<"url1">>, <<"url2">>},
        x \in {<<"a", " - ", "b">>, <<"c">>} }
    \cup { [FirstURL |-> <<"url2">>, Text |-> <<>>] }

\* the instant answer of a response: none, or an abstract with or without a
\* heading and with or without an url
Abstracts ==
    { [Abstract |-> <<>>, hasHeading |-> FALSE, Heading |-> <<>>, AbstractURL |-> <<>>] }
    \cup { [Abstract |-> <<"abstract">>, hasHeading |-> h,
            Heading |-> IF h THEN <<"heading">> ELSE <<>>, AbstractURL |-> u] :
            h \in BOOLEAN, u \in {<<>>, <<"url1">>} }

DDGInputs ==
    {DDGFailure}
    \cup { [ok |-> TRUE, Abstract |-> a.Abstract, hasHeading |-> a.hasHeading,
            Heading |-> a.Heading, AbstractURL |-> a.AbstractURL, RelatedTopics |-> topics] :
            a \in Abstracts,
            topics \in UNION { [1..n -> TopicItems] : n \in 0..MaxTopics } }

InitDDG ==
    /\ store_kind = "memory"
    /\ ServerIdle
    /\ RouterIdle
    /\ TriggerIdle
    /\ ddg_call \in [query : {<<"q">>}, max_results : 0..MaxResultsAsked, response : DDGInputs]
    /\ ddg_result = NoDDGResult

\* ddg_service.search(query, max_results)
Search ==
    /\ ~ddg_result.called
    /\ ddg_result' = [called  |-> TRUE,
                      results |-> search(ddg_call.query, ddg_call.max_results,
                                         ddg_call.response)]
    /\ UNCHANGED <<server, router, trigger, ddg_call>>

NextDDG == Search

SpecDDG == InitDDG /\ [][NextDDG]_vars

\* ------------------------------------------------------------------------
\* Properties
\* ------------------------------------------------------------------------

Last(h) == h[Len(h)]

Done(t) == turn[t].pc = "done"

\* the handler is between its load and its end
InTurn(t) ==
    turn[t].pc \in {"edit", "search_decision", "search_wait", "pick",
                    "dispatch_wait", "set_wait"}

\* the provider's API failed in the turn of t
ProviderFailed(t) == ghost[t].outcome \in CollaboratorOutcomes \ {"text"}

\* C1: when the provider fails, the turn ends with status 200, its reply is
\* one of the fixed fallback strings, and the stored conversation of the
\* session ends with that reply as the assistant's message.
C1_FallbackPersisted ==
    \A t \in Turns :
        (Done(t) /\ ProviderFailed(t)) =>
            /\ turn[t].status = 200
            /\ turn[t].reply \in FallbackStrings
            /\ View(turn[t].session_id) # <<>>
            /\ Last(View(turn[t].session_id)) = Msg("assistant", turn[t].reply)

\* the first n messages of h, message by message
IsPrefix(p, h) == Len(p) <= Len(h) /\ \A i \in DOMAIN p : p[i] = h[i]

\* C2: with 0 <= edit_index <= len(C), right after the edit step the working
\* conversation has exactly edit_index messages and they are the first
\* edit_index messages of the conversation C that get_session returned; the
\* messages of the turn are appended behind them.
C2_TruncateToPrefix ==
    \A t \in Turns :
        (InTurn(t) /\ turn[t].pc # "edit" /\ turn[t].req.edit_index # {}) =>
            \E n \in turn[t].req.edit_index :
                /\ 0 <= n /\ n <= Len(ghost[t].loaded)
                /\ Len(ghost[t].base) = n
                /\ IsPrefix(ghost[t].base, ghost[t].loaded)
                /\ IsPrefix(ghost[t].base, Working(t))
                /\ turn[t].pc = "search_decision" => Working(t) = ghost[t].base
                /\ n = Len(ghost[t].loaded) => ghost[t].base = ghost[t].loaded
                /\ n = 0 => ghost[t].base = <<>>

\* a turn cut a conversation of several messages in its middle
C2_Witness ==
    \E t \in Turns :
        /\ turn[t].pc = "dispatch_wait"
        /\ \E n \in turn[t].req.edit_index : 0 < n /\ n < Len(ghost[t].loaded)

\* C3: a turn that ends with 400 has changed nothing in the store: no
\* conversation and no set of sessions.
C3_RejectedEditNoEffect ==
    \A t \in Turns :
        (Done(t) /\ turn[t].status = 400) => ghost[t].effects = {}

\* the search ran in the turn of t and failed or found nothing
SearchFailed(t) == should_search(turn[t].req.prompt) /\ ghost[t].search_failed

\* the turn has ended with its reply returned and stored
RepliedAndPersisted(t) ==
    /\ turn[t].status = 200
    /\ turn[t].reply = Strip(ProviderText)
    /\ Len(turn[t].resp_history) >= 2
    /\ Last(turn[t].resp_history) = Msg("assistant", turn[t].reply)
    /\ Msg("user", turn[t].req.prompt) \in Range(turn[t].resp_history)
    /\ View(turn[t].session_id) = turn[t].resp_history

\* C4 as stated: after a failed search, a turn whose provider returns text
\* ends with a reply and a persisted conversation.
C4_SearchFailureAlwaysPersists ==
    \A t \in Turns :
        (Done(t) /\ SearchFailed(t) /\ ghost[t].outcome = "text") => RepliedAndPersisted(t)

\* the steps of a turn whose search failed
C4_StepOfFailedSearch(t) ==
    /\ (turn[t].pc = "search_wait" /\ turn'[t].pc # "search_wait"
        /\ turn'[t].search_results = <<>>) =>
            /\ turn'[t].pc = "pick"
            /\ heap'[turn'[t].history] = Working(t)
    /\ (turn[t].pc = "pick" /\ turn'[t].pc # "pick" /\ turn[t].search_results = <<>>) =>
            /\ turn'[t].pc = "dispatch_wait"
            /\ turn'[t].call.fn \in Providers
            /\ heap'[turn'[t].history] = Append(Working(t), Msg("user", turn'[t].req.prompt))

\* C4, amended: a failed or empty search adds no system message and does not
\* end the turn; the user message is appended and the provider is called;
\* when the provider returns text and the store takes the write, the turn ends
\* with the reply returned and the conversation stored; the only other end is
\* the 500 of a store whose write raised.
C4_SearchFailureNotFatal ==
    /\ [][\A t \in Turns : C4_StepOfFailedSearch(t)]_vars
    /\ [](\A t \in Turns :
            (Done(t) /\ SearchFailed(t) /\ ghost[t].outcome = "text") =>
                \/ RepliedAndPersisted(t)
                \/ turn[t].status = 500 /\ ghost[t].store_failed /\ store_kind = "redis")

\* a turn whose search failed has ended with its reply stored
C4_Witness ==
    \E t \in Turns :
        /\ Done(t) /\ SearchFailed(t) /\ ghost[t].outcome = "text"
        /\ RepliedAndPersisted(t)
        /\ \A i \in DOMAIN turn[t].resp_history : turn[t].resp_history[i].role # "system"

\* C5: while a turn waits for its provider, having appended its user message
\* (and its search context), get_session does not return that unfinished
\* conversation.
C5_NoPartialConversation ==
    \A t \in Turns :
        turn[t].pc = "dispatch_wait" => View(turn[t].session_id) # Working(t)

\* C6: a turn that ends with 500 has changed no stored conversation.
C6_ServerErrorNoEffect ==
    \A t \in Turns :
        (Done(t) /\ turn[t].status = 500) => "conversation" \notin ghost[t].effects

\* the conversation the turn of t builds from what it loaded: its base, its
\* search context, its user message, its reply
OwnConversation(t) ==
    ghost[t].base
        \o SearchContextMessages(turn[t].search_results)
        \o << Msg("user", turn[t].req.prompt), Msg("assistant", turn[t].reply) >>

\* C7: of two turns that raced on a session, the one that persists last
\* leaves exactly the conversation of its own read-modify-write.
C7_LastWriteWins ==
    \A t \in Turns :
        (Done(t) /\ turn[t].status = 200 /\ ghost[t].overtaken # {}) =>
            /\ View(turn[t].session_id) = turn[t].resp_history
            /\ View(turn[t].session_id) = OwnConversation(t)

\* a step of handler t leaves every session but its own as it was
C8_StepFrame ==
    \A t \in Turns :
        turn'[t] # turn[t] =>
            \A s \in SessionIds \ {turn'[t].session_id, turn[t].session_id} :
                /\ View(s)' = View(s)
                /\ (s \in Keys') <=> (s \in Keys)

\* no list is the conversation of two sessions, or in the hands of a handler
\* of another session
C8_OneOwner ==
    /\ \A s1, s2 \in DOMAIN db : db[s1] = db[s2] => s1 = s2
    /\ \A t \in Turns : \A s \in DOMAIN db :
          turn[t].history = db[s] => turn[t].session_id = s

\* C8: a step of a handler changes neither the conversation nor the presence
\* of any session but the handler's own, and every stored conversation is
\* reached from exactly one session id.
C8_SessionsIsolated == []C8_OneOwner /\ [][C8_StepFrame]_vars

\* two turns on different sessions, one unknown to the store when it was
\* read, one with a stored conversation; the first is about to append
C8_Witness ==
    \E t, u \in Turns :
        /\ turn[t].pc = "pick" /\ turn[u].pc = "dispatch_wait"
        /\ turn[t].session_id # turn[u].session_id
        /\ turn[t].session_id \notin Keys
        /\ View(turn[u].session_id) # <<>>

\* C9: a turn that ends with 200 has stored and returned its base
\* conversation, then its search context if the search gave results, then
\* its user message, then its reply; the base is what get_session returned,
\* cut to edit_index messages when edit_index is given.
C9_TurnOrder ==
    \A t \in Turns :
        (Done(t) /\ turn[t].status = 200) =>
            LET h   == turn[t].resp_history
                b   == ghost[t].base
                ctx == IF turn[t].search_results # <<>> THEN 1 ELSE 0
            IN  /\ View(turn[t].session_id) = h
                /\ b = IF turn[t].req.edit_index = {} THEN ghost[t].loaded
                       ELSE SubSeq(ghost[t].loaded, 1,
                                   CHOOSE n \in turn[t].req.edit_index : TRUE)
                /\ Len(h) = Len(b) + ctx + 2
                /\ IsPrefix(b, h)
                /\ ctx = 1 => h[Len(b) + 1].role = "system"
                /\ h[Len(h) - 1] = Msg("user", turn[t].req.prompt)
                /\ h[Len(h)] = Msg("assistant", turn[t].reply)

\* keyword kw stands in s as a whole word or phrase: no word character
\* touches it on either side
OccursAsWholeWord(kw, s) ==
    \E i \in 1..Len(s) :
        /\ LiteralAt(s, i, kw)
        /\ (i = 1 \/ ~IsWordChar(s[i - 1]))
        /\ (i + Len(kw) > Len(s) \/ ~IsWordChar(s[i + Len(kw)]))

\* the entries of the table whose keyword stands in the lower-cased prompt
MatchingEntries(map, prompt) ==
    { i \in DOMAIN map : OccursAsWholeWord(map[i].keyword, Lower(prompt)) }

\* C10: pick_model returns the provider of the first entry of the table
\* whose keyword stands in the lower-cased prompt as a whole word or phrase,
\* and "gemini" when there is none.
C10_FirstMatchWins ==
    route_result # "" =>
        LET hits == MatchingEntries(route_map, route_prompt)
        IN  route_result = IF hits = {} THEN "gemini" ELSE route_map[Min(hits)].model

\* routed a prompt in which two keywords of different providers stand, the
\* longer one later in the table
C10_Witness ==
    /\ route_result # ""
    /\ \E i, j \in MatchingEntries(route_map, route_prompt) :
          /\ i < j
          /\ route_map[i].model # route_map[j].model
          /\ Len(route_map[i].keyword) < Len(route_map[j].keyword)

\* the provider whose chat() the turn of t calls or has called
Dispatched(t) == turn[t].picked

\* the turn of t has chosen its provider
HasDispatched(t) == turn[t].pc \in {"dispatch_wait", "set_wait"} \/ (Done(t) /\ turn[t].picked # "")

\* C11: the provider a turn dispatches to is one of gemini, groq, hf,
\* pollinations: the model of the request when it names one of them, whatever
\* the prompt; with model "auto" the provider the router gives for the prompt,
\* or gemini when the routing rules give an id that is no known provider; and
\* the call waiting in the thread pool is the chat() of that provider.
C11_DispatchedProviderKnown ==
    \A t \in Turns :
        HasDispatched(t) =>
            /\ Dispatched(t) \in {"gemini", "groq", "hf", "pollinations"}
            /\ turn[t].req.model \in Providers => Dispatched(t) = turn[t].req.model
            /\ turn[t].req.model = "auto" =>
                  LET routed == pick_model(turn[t].req.prompt)
                  IN  Dispatched(t) = IF routed \in Providers THEN routed ELSE "gemini"
            /\ turn[t].pc = "dispatch_wait" => turn[t].call.fn = Dispatched(t)

\* a turn with model "auto" whose prompt the routing rules send to an id that
\* is no known provider waits for gemini
C11_Witness ==
    \E t \in Turns :
        /\ turn[t].pc = "dispatch_wait"
        /\ turn[t].req.model = "auto"
        /\ pick_model(turn[t].req.prompt) \notin Providers
        /\ turn[t].call.fn = "gemini"

\* the step completes the set_session of the turn of t
SetCompleted(t) ==
    /\ turn[t].pc = IF store_kind = "memory" THEN "dispatch_wait" ELSE "set_wait"
    /\ turn'[t].pc = "done" /\ turn'[t].status = 200

\* the conversation that set_session is given in that step
GivenToSet(t) ==
    IF store_kind = "memory"
    THEN Append(Working(t), Msg("assistant", turn'[t].reply))
    ELSE Working(t)

\* the step completes the set_session of new_session in the turn of t
NewSessionCompleted(t) ==
    /\ turn[t].pc = IF store_kind = "memory" THEN "ensure_session" ELSE "new_session_wait"
    /\ turn'[t].pc = "load"
    /\ store_kind = "memory" => nuuid' = nuuid + 1

\* the step completes the get_session of the turn of t
GetCompleted(t) ==
    /\ turn[t].pc = IF store_kind = "memory" THEN "load" ELSE "get_wait"
    /\ turn'[t].pc = "edit"

\* the steps of the store in the turn of t
C12_StoreStep(t) ==
    /\ SetCompleted(t) => View(turn[t].session_id)' = GivenToSet(t)
    /\ NewSessionCompleted(t) =>
          \A s \in SessionIds : s = turn'[t].session_id => View(s)' = <<>>
    /\ GetCompleted(t) =>
          /\ ghost'[t].loaded = View(turn[t].session_id)
          /\ heap'[turn'[t].history] = View(turn[t].session_id)
    /\ (SetCompleted(t) \/ NewSessionCompleted(t) \/ GetCompleted(t)) =>
          \A s \in SessionIds \ {turn'[t].session_id} : View(s)' = View(s)

\* C12: once set_session(id, {messages: C}) is done, get_session(id) gives a
\* conversation equal to C, message by message, in both stores; a get_session
\* returns what the store then gives for the id; and a set or get on one id
\* changes what the store gives for no other id.
C12_RoundTrip == [][\A t \in Turns : C12_StoreStep(t)]_vars

\* a turn on the Redis store has read a conversation with a search context,
\* a user message and a reply, which the set_session of an earlier turn wrote
C12_Witness ==
    \E t \in Turns :
        /\ store_kind = "redis"
        /\ turn[t].pc = "edit"
        /\ Len(ghost[t].loaded) >= 3
        /\ { ghost[t].loaded[i].role : i \in DOMAIN ghost[t].loaded } = Roles
        /\ ghost[t].loaded = View(turn[t].session_id)

\* C13: a turn whose session id the store did not know when get_session
\* asked for it (no such key, or a key holding a value that is no stored
\* session) gets an empty conversation: the read does not raise and the turn
\* goes on with no messages.
C13_UnknownIdEmptyBase ==
    \A t \in Turns :
        ghost[t].unknown # "" =>
            /\ ~ghost[t].read_failed
            /\ ghost[t].loaded = <<>>
            /\ turn[t].pc = "edit" => Working(t) = <<>>

\* C14: a turn never calls the search with an empty query: when removing
\* the trigger verbs leaves nothing of the prompt, the query is the prompt.
C14_NoEmptyQuery ==
    \A t \in Turns :
        turn[t].pc = "search_wait" =>
            /\ turn[t].call.fn = "ddg"
            /\ turn[t].call.arg # <<>>
            /\ extract_query(turn[t].req.prompt) = <<>> => turn[t].call.arg = turn[t].req.prompt

\* text ends with the text tail
EndsWith(text, tail) ==
    Len(tail) <= Len(text) /\ SubSeq(text, Len(text) - Len(tail) + 1, Len(text)) = tail

\* the search context of the turn of t is in the argument of its provider call
ContextInCall(t) ==
    LET arg     == turn[t].call.arg
        results == turn[t].search_results
        prompt  == turn[t].req.prompt
        top     == Take(results, ContextResults)
    IN  IF turn[t].picked \in {"gemini", "groq"}
        THEN /\ Len(arg) >= 2
             /\ arg[Len(arg)] = Msg("user", prompt)
             /\ arg[Len(arg) - 1].role = "system"
             /\ \A i \in DOMAIN top : Contains(arg[Len(arg) - 1].content, top[i].snippet)
        ELSE /\ arg # prompt
             /\ EndsWith(arg, prompt)
             /\ \A i \in DOMAIN top : Contains(arg, top[i].snippet)

\* C15: when the search of a turn gave results, the provider call of the turn
\* gets the search context: gemini and groq the whole conversation, with the
\* system message of the context right before the new user message at its
\* end; hf and pollinations the prompt behind a context made of the snippets.
C15_ContextVisible ==
    \A t \in Turns :
        (turn[t].pc = "dispatch_wait" /\ turn[t].search_results # <<>>) => ContextInCall(t)

\* the words of ws that are no trigger, in their order
RECURSIVE NonTriggerWords(_)
NonTriggerWords(ws) ==
    IF ws = <<>> THEN <<>>
    ELSE IF Head(ws).is_trigger THEN NonTriggerWords(Tail(ws))
         ELSE <<Head(ws).text>> \o NonTriggerWords(Tail(ws))

\* C16: for a prompt of one trigger (in any letter case) and other words,
\* should_search is true and extract_query gives the other words, each as it
\* was written, in their order, with one space between two of them and none
\* before or behind; a word that only holds a trigger inside stays whole.
C16_QueryIsOtherWords ==
    trigger_result.called =>
        /\ trigger_result.should_search
        /\ trigger_result.query = Join(<<" ">>, NonTriggerWords(trigger_words))

\* extract_query was given a prompt with an upper-case trigger between a word
\* that holds a trigger inside and another word, with more than one space
C16_Witness ==
    /\ trigger_result.called
    /\ Len(trigger_words) = 3
    /\ trigger_words[1].text = <<"f","i","n","d","e","r">>
    /\ trigger_words[2].text = <<"F","I","N","D">>
    /\ Contains(trigger_prompt, <<" ","\t"," ">>)
    /\ Head(trigger_prompt) = " "
    /\ trigger_result.query # <<>>

\* what the response holds, in its order: the instant answer if it has an
\* abstract, then the related topics that have an url and a text
Candidates == IF ddg_call.response.ok THEN DDGResults(ddg_call.query, ddg_call.response) ELSE <<>>

\* the places of c that hold an url no earlier place holds
FirstPlaces(c) ==
    { i \in DOMAIN c : c[i].url # <<>> /\ \A j \in 1..(i - 1) : c[j].url # c[i].url }

\* the elements of c at the places of K, in their order
RECURSIVE AtPlaces(_, _, _)
AtPlaces(c, K, i) ==
    IF i > Len(c) THEN <<>>
    ELSE (IF i \in K THEN <<c[i]>> ELSE <<>>) \o AtPlaces(c, K, i + 1)

\* C17: in the list that search returns no two results have the same url,
\* none has an empty url, there are at most max_results of them, and they are
\* the first results of each url, in the order of the response: the instant
\* answer first, then the related topics.
C17_DeduplicatedByUrl ==
    ddg_result.called =>
        LET r     == ddg_result.results
            first == AtPlaces(Candidates, FirstPlaces(Candidates), 1)
        IN  /\ \A i, j \in DOMAIN r : r[i].url = r[j].url => i = j
            /\ \A i \in DOMAIN r : r[i].url # <<>>
            /\ Len(r) <= ddg_call.max_results
            /\ Len(r) = IF Len(first) < ddg_call.max_results THEN Len(first)
                        ELSE ddg_call.max_results
            /\ \A i \in DOMAIN r : r[i] = first[i]
            /\ (r # <<>> /\ ddg_call.response.Abstract # <<>>
                         /\ ddg_call.response.AbstractURL # <<>>) =>
                  /\ r[1].snippet = ddg_call.response.Abstract
                  /\ r[1].url = ddg_call.response.AbstractURL

\* search was given an instant answer and three related topics, one with the
\* url of the instant answer, one without url, and returned two results
C17_Witness ==
    /\ ddg_result.called
    /\ ddg_call.response.AbstractURL = <<"url1">>
    /\ Len(ddg_call.response.RelatedTopics) = 3
    /\ ddg_call.response.RelatedTopics[1].FirstURL = <<"url1">>
    /\ ddg_call.response.RelatedTopics[2].FirstURL = <<>>
    /\ ddg_call.response.RelatedTopics[3] = [FirstURL |-> <<"url2">>, Text |-> <<"c">>]
    /\ Len(ddg_result.results) = 2
    /\ ddg_result.results[2].url = <<"url2">>

====
